---------------------------- MODULE Spec2Model ----------------------------
(***************************************************************************)
(* A model of mongodb-honeypot-monitor.                                    *)
(*                                                                         *)
(*   main.py      the main thread (__main__), the proxy worker (handle,    *)
(*                proxy, recv_msg, unpack_msg), the upstream supervisor    *)
(*                (check_mongo), print and the shutdown event              *)
(*   logger.py    the JSON-lines logger with size-threshold rotation       *)
(*   messages.py  the decoder of wire messages (unpack_msg and the         *)
(*                unpackers it dispatches to)                              *)
(*                                                                         *)
(* Bytes are naturals 0..255, buffers are sequences of bytes, and integers *)
(* on the wire are decoded as the code decodes them (little-endian, 32     *)
(* bits, two's complement).                                                *)
(***************************************************************************)
EXTENDS Integers, Sequences, FiniteSets, TLC

VARIABLES
    \* ---- main.py: process-wide
    shutdown_event,   \* threading.Event: TRUE once set
    mongoUp,          \* environment: whether the upstream answers
    \* ---- main.py: the main thread running __main__
    mainpc,           \* position of the main thread
    exit_status,      \* the exit status of the process, -1 while it runs
    accepted,         \* clients accepted so far
    output_lock,      \* the thread holding output_lock, "" when it is free
    \* ---- main.py: the two sockets of one connection, seen from the proxy
    wire,             \* [Socks -> bytes] sent by the remote end, still in the network
    rx,               \* [Socks -> bytes] arrived, waiting in the socket's receive buffer
    remote,           \* [Socks -> "open" | "fin" | "rst"] what the remote end did
    writable,         \* [Socks -> BOOLEAN] the socket's send buffer has room
    nsent,            \* frames the remote ends have submitted
    \* ---- main.py: the worker thread running MongoHandler.handle / proxy
    pc,               \* position of the worker
    events,           \* selector_events still to be handled by the for loop
    sock,             \* the loop variable sock
    buf,              \* the local buf of recv_msg / proxy
    exit_condition,   \* the termination printed by proxy, "" when none
    error,            \* the exception that ended the worker, "" when none
    rdlog,            \* [Socks -> bytes] history: every byte recv returned, in order
    wrlog,            \* [Socks -> bytes] history: every byte send accepted, in order
    held,             \* what the worker's with statements hold open: mongo_sock, selector
    \* ---- main.py: the supervisor thread running check_mongo
    suppc,            \* position of the supervisor
    was_up,           \* the local was_up
    console,          \* what __main__, handle and check_mongo printed, in order
    restarts,         \* number of times MongoContainer.restart ran
    flips,            \* number of times the upstream changed between up and down
    \* ---- logger.py: module state and the files
    log_lock,         \* the thread holding log_lock, 0 when it is free
    log_file,         \* the module's handle: "None", or the mode it is open in, or "closed"
    fbuf,             \* what was written to the handle and not flushed yet
    disk,             \* the content of the file at log_path
    segs,             \* the rotated segments in the log's directory: name -> content
    \* ---- logger.py: the threads calling log()
    lpc,              \* [LThreads -> position]
    entry,            \* [LThreads -> the number of the call the thread is in]
    written,          \* [LThreads -> chunks of the entry json.dump has written]
    rotate_n,         \* [LThreads -> the local n of rotate_log]
    calls,            \* history: for each call, in order of issue, the chunks of its entry
    order,            \* history: the calls in the order they took log_lock
    returned,         \* history: the calls that returned normally
    created,          \* history: the segment names rotate_log wrote, in order
    scanned,          \* history: for each rotation, the segment names it found
    pre,              \* history: disk and number of rotations when log_entry last looked at the size
    initial,          \* history: disk and segment names right after init()
    deleted,          \* history: someone removed a segment from the directory
    \* ---- messages.py: one call of unpack_msg on a frame
    desc,             \* what the frame under decoding was built from
    stack,            \* the buffers of the nested calls of unpack_msg, outermost first
    cpc,              \* position of the decoder
    cerror            \* the exception the decoder raised, "" when none

mainvars == << shutdown_event, mongoUp, mainpc, exit_status, accepted, output_lock,
               wire, rx, remote, writable, nsent, pc, events,
               sock, buf, exit_condition, error, rdlog, wrlog, held, suppc, was_up,
               console, restarts, flips >>

procvars == << shutdown_event, mainpc, exit_status, accepted >>
envvars == << mongoUp, flips >>
outvars == << output_lock, console >>
netvars == << wire, rx, remote, writable, nsent >>
workervars == << pc, events, sock, buf, exit_condition, error, rdlog, wrlog, held >>
supvars == << suppc, was_up, restarts >>

logvars == << log_lock, log_file, fbuf, disk, segs, lpc, entry, written, rotate_n, calls,
              order, returned, created, scanned, pre, initial, deleted >>

codecvars == << desc, stack, cpc, cerror >>

vars == << mainvars, logvars, codecvars >>

-----------------------------------------------------------------------------
(* Bounds of the model *)

\* frames the remote ends may submit in a run, in total
MaxFrames == 1
\* times the upstream may go down or come back
MaxFlips == 2
\* threads that call log()
NThreads == 2
\* clients the server accepts in a run, one after the other
MaxClients == 2
\* calls of log() in a run
MaxCalls == 3
\* the log_rotation_threshold given to init(), in bytes
Threshold == 2
\* OP_COMPRESSED layers wrapped around a message
MaxNest == 2

-----------------------------------------------------------------------------
(* Byte buffers *)

Socks == {"peer_sock", "mongo_sock"}

\* proxy registers each socket with the other one as its forwarding target
Other(s) == IF s = "peer_sock" THEN "mongo_sock" ELSE "peer_sock"

Min(a, b) == IF a < b THEN a ELSE b

Take(s, n) == SubSeq(s, 1, Min(n, Len(s)))

Drop(s, n) == SubSeq(s, Min(n, Len(s)) + 1, Len(s))

IsPrefix(p, s) == Len(p) <= Len(s) /\ SubSeq(s, 1, Len(p)) = p

\* xstruct Int32, Little: four bytes at 0-based offset off, two's complement
Int32At(b, off) ==
    LET top == IF b[off + 4] >= 128 THEN b[off + 4] - 256 ELSE b[off + 4]
    IN  b[off + 1] + 256 * b[off + 2] + 65536 * b[off + 3] + 16777216 * top

\* the inverse, used to write the frames the remote ends send
Int32Bytes(n) ==
    << n % 256, (n \div 256) % 256, (n \div 65536) % 256, (n \div 16777216) % 256 >>

\* sizeof(MsgHeader): four Int32 fields
header_size == 16

OP_REPLY == 1
OP_UPDATE == 2001
OP_INSERT == 2002
OP_QUERY == 2004
OP_GET_MORE == 2005
OP_DELETE == 2006
OP_KILL_CURSORS == 2007
OP_COMPRESSED == 2012
OP_MSG == 2013

\* MsgHeader.unpack: defined on a buffer of at least header_size bytes
MsgHeader(b) ==
    [ message_length |-> Int32At(b, 0),
      request_id     |-> Int32At(b, 4),
      response_to    |-> Int32At(b, 8),
      op_code        |-> Int32At(b, 12) ]

\* the keys of main.py's msg_unpackers (OP_COMPRESSED is not among them)
msg_unpackers ==
    { OP_REPLY, OP_UPDATE, OP_INSERT, OP_QUERY, OP_GET_MORE, OP_DELETE,
      OP_KILL_CURSORS, OP_MSG }

\* KillCursorsMsg.unpack: header, zero, number_of_cursor_ids, then that many Int64
KillCursorsUnpacks(b) ==
    /\ Len(b) >= header_size + 8
    /\ Int32At(b, header_size + 4) >= 0
    /\ Len(b) >= header_size + 8 + 8 * Int32At(b, header_size + 4)

\* The fixed-width fields that follow the header in each message struct; the
\* C-strings and BSON documents after them are parsed by the xstruct and bson
\* libraries and need at least one more byte each.
FixedPayload(op) ==
    CASE op = OP_REPLY    -> 20
      [] op = OP_UPDATE   -> 4
      [] op = OP_INSERT   -> 4
      [] op = OP_QUERY    -> 4
      [] op = OP_GET_MORE -> 4
      [] op = OP_DELETE   -> 4
      [] op = OP_MSG      -> 4
      [] OTHER            -> 0

\* unpack_msg: TRUE when it returns a message, FALSE when it raises
unpack_msg(b) ==
    /\ Len(b) >= header_size
    /\ MsgHeader(b).op_code \in msg_unpackers
    /\ IF MsgHeader(b).op_code = OP_KILL_CURSORS
       THEN KillCursorsUnpacks(b)
       ELSE Len(b) >= header_size + FixedPayload(MsgHeader(b).op_code)

-----------------------------------------------------------------------------
(* The frames the remote ends send *)

\* a well-formed OP_KILL_CURSORS frame with no cursor ids: 24 bytes
KillCursorsFrame ==
    Int32Bytes(24) \o Int32Bytes(7) \o Int32Bytes(0) \o Int32Bytes(OP_KILL_CURSORS)
        \o Int32Bytes(0) \o Int32Bytes(0)

\* a frame whose op_code is in no table: 18 bytes
UnknownOpFrame ==
    Int32Bytes(18) \o Int32Bytes(9) \o Int32Bytes(0) \o Int32Bytes(9999) \o << 1, 2 >>

\* a header whose message_length is smaller than the header itself
ShortLenFrame ==
    Int32Bytes(8) \o Int32Bytes(11) \o Int32Bytes(0) \o Int32Bytes(OP_KILL_CURSORS)

\* the ceiling the specification puts on message_length: 48 MiB
MAX_MESSAGE == 50331648

\* a header whose message_length is one more than that ceiling, and two bytes
HugeLenFrame ==
    Int32Bytes(MAX_MESSAGE + 1) \o Int32Bytes(13) \o Int32Bytes(0)
        \o Int32Bytes(OP_KILL_CURSORS) \o << 1, 2 >>

Frames == { KillCursorsFrame, UnknownOpFrame, ShortLenFrame, HugeLenFrame }

\* A remote end may stop right after the header of a frame.
SendLens(f) == { Len(f), 16 }

\* The network hands over what is in flight at once, or a segment of one of
\* these sizes first, so that a frame may arrive cut within its header or
\* within its body.
Segments == { 10, 7 }

\* send accepts the whole buffer, or one of these numbers of bytes.
ShortWrites == { 10 }

-----------------------------------------------------------------------------
(* main.py: the environment of one connection *)

MainInit ==
    /\ shutdown_event = FALSE
    /\ mongoUp = TRUE
    /\ mainpc = "startup"
    /\ exit_status = -1
    /\ accepted = 0
    /\ output_lock = ""
    /\ wire = [s \in Socks |-> << >>]
    /\ rx = [s \in Socks |-> << >>]
    /\ remote = [s \in Socks |-> "open"]
    /\ writable = [s \in Socks |-> TRUE]
    /\ nsent = 0
    /\ pc = "idle"
    /\ events = << >>
    /\ sock = "peer_sock"
    /\ buf = << >>
    /\ exit_condition = ""
    /\ error = ""
    /\ rdlog = [s \in Socks |-> << >>]
    /\ wrlog = [s \in Socks |-> << >>]
    /\ held = {}
    /\ suppc = "idle"
    /\ was_up = TRUE
    /\ console = << >>
    /\ restarts = 0
    /\ flips = 0

\* the remote end of s writes the first n bytes of frame f
RemoteSend(s, f, n) ==
    /\ remote[s] = "open"
    /\ nsent < MaxFrames
    /\ n <= Len(f)
    /\ wire' = [wire EXCEPT ![s] = @ \o Take(f, n)]
    /\ nsent' = nsent + 1
    /\ UNCHANGED << rx, remote, writable >>

\* the network delivers the next k bytes to the proxy's socket s
Deliver(s, k) ==
    /\ remote[s] # "rst"
    /\ k >= 1
    /\ k <= Len(wire[s])
    /\ rx' = [rx EXCEPT ![s] = @ \o Take(wire[s], k)]
    /\ wire' = [wire EXCEPT ![s] = Drop(@, k)]
    /\ UNCHANGED << remote, writable, nsent >>

\* the remote end of s closes; its FIN arrives after everything it sent
RemoteClose(s) ==
    /\ remote[s] = "open"
    /\ wire[s] = << >>
    /\ remote' = [remote EXCEPT ![s] = "fin"]
    /\ UNCHANGED << wire, rx, writable, nsent >>

\* the remote end of s resets the connection; undelivered and unread data is lost
RemoteReset(s) ==
    /\ remote[s] # "rst"
    /\ remote' = [remote EXCEPT ![s] = "rst"]
    /\ wire' = [wire EXCEPT ![s] = << >>]
    /\ rx' = [rx EXCEPT ![s] = << >>]
    /\ UNCHANGED << writable, nsent >>

\* the remote end of s stops or resumes reading, so the send buffer fills or
\* drains; the proxy can tell only when it is about to send to s
RemoteStall(s) ==
    /\ remote[s] = "open"
    /\ pc = "send"
    /\ s = Other(sock)
    /\ writable' = [writable EXCEPT ![s] = ~@]
    /\ UNCHANGED << wire, rx, remote, nsent >>

\* no worker is running: none was started yet, or the last one has ended and
\* its sockets are closed
Ended == pc \in {"idle", "refused", "exited", "crashed"}

\* the proxy's socket s is connected: the client's from accept on, the
\* upstream's once MongoHandler.handle has connected it
Connected(s) == ~Ended /\ (s = "mongo_sock" => pc # "connect")

NetNext ==
    \E s \in Socks :
        /\ Connected(s)
        /\ UNCHANGED << codecvars, logvars, procvars, envvars, outvars, workervars, supvars >>
        /\ \/ \E f \in Frames : \E n \in SendLens(f) : RemoteSend(s, f, n)
           \/ \E k \in { Len(wire[s]) } \cup Segments : Deliver(s, k)
           \/ RemoteClose(s)
           \/ RemoteReset(s)
           \/ RemoteStall(s)

\* the upstream stops answering, or answers again
MongoFlip ==
    /\ flips < MaxFlips
    /\ mongoUp' = ~mongoUp
    /\ flips' = flips + 1
    /\ UNCHANGED << codecvars, logvars, procvars, outvars, netvars, workervars, supvars >>

-----------------------------------------------------------------------------
(* main.py: print, and the main thread running __main__ *)

\* is_mongo_up: server_info() answers within serverSelectionTimeoutMS
is_mongo_up == mongoUp

\* the threads of main.py
MainThreads == { "main", "worker", "supervisor" }

\* print as it would be if the with statement did not release output_lock
WithExit_KeepsLock(th) == th

\* print: output_lock after the end of "with output_lock:" in thread th
WithExit(th) == ""

\* print as it would be if it wrote nothing
PrintRelease_Silent(th, line) ==
    /\ output_lock = th
    /\ output_lock' = ""
    /\ console' = console

\* print: "with output_lock:" entered by thread th, which waits while another
\* thread holds the lock
PrintAcquire(th) ==
    /\ output_lock = ""
    /\ output_lock' = th

\* print: _print(line) and the end of the with statement, in thread th; the
\* model keeps the lines about the upstream and the end of the run
PrintRelease(th, line) ==
    /\ output_lock = th
    /\ output_lock' = WithExit(th)
    /\ console' = IF line = "" THEN console ELSE Append(console, line)

\* the finally clause of __main__ as it would be without shutdown_event.set()
Finally_NoSet(e) == e

\* the finally clause of __main__: shutdown_event.set()
Finally(e) == TRUE

\* __main__: the first probe of the upstream; when it answers, check_mongo is
\* started in its thread and the server is created, which either succeeds, and
\* serve_forever starts, or raises (the address cannot be bound), and the
\* exception leaves the try statement through the finally clause
Startup ==
    /\ mainpc = "startup"
    /\ IF is_mongo_up
       THEN /\ suppc' = "wait"
            /\ \/ mainpc' = "serving" /\ UNCHANGED shutdown_event
               \/ mainpc' = "raised" /\ shutdown_event' = Finally(shutdown_event)
       ELSE mainpc' = "print_unreachable" /\ suppc' = suppc /\ UNCHANGED shutdown_event
    /\ UNCHANGED << exit_status, accepted, was_up, restarts >>
    /\ UNCHANGED << codecvars, logvars, envvars, outvars, netvars, workervars >>

\* serve_forever accepts a client, and ThreadingMixIn starts a thread that
\* runs MongoHandler.handle on the connection; in the model one connection is
\* open at a time
Accept ==
    /\ mainpc = "serving"
    /\ Ended
    /\ accepted < MaxClients
    /\ accepted' = accepted + 1
    /\ pc' = "connect"
    /\ events' = << >>
    /\ sock' = "peer_sock"
    /\ buf' = << >>
    /\ exit_condition' = ""
    /\ error' = ""
    /\ rdlog' = [s \in Socks |-> << >>]
    /\ wrlog' = [s \in Socks |-> << >>]
    /\ held' = {}
    /\ wire' = [s \in Socks |-> << >>]
    /\ rx' = [s \in Socks |-> << >>]
    /\ remote' = [s \in Socks |-> "open"]
    /\ writable' = [s \in Socks |-> TRUE]
    /\ UNCHANGED << nsent, shutdown_event, mainpc, exit_status >>
    /\ UNCHANGED << codecvars, logvars, envvars, outvars, supvars >>

\* KeyboardInterrupt in serve_forever: the with statement leaves through
\* ProxyServer.server_close, which sets shutdown_event and then waits for the
\* threads of the workers
SetShutdown ==
    /\ mainpc = "serving"
    /\ shutdown_event' = TRUE
    /\ mainpc' = "closing"
    /\ UNCHANGED << exit_status, accepted >>
    /\ UNCHANGED << codecvars, logvars, envvars, outvars, netvars, workervars, supvars >>

\* an exception other than KeyboardInterrupt in serve_forever: the with
\* statement leaves through ProxyServer.server_close in the same way, and no
\* except clause catches the exception
ServeRaises ==
    /\ mainpc = "serving"
    /\ shutdown_event' = TRUE
    /\ mainpc' = "closing_raised"
    /\ UNCHANGED << exit_status, accepted >>
    /\ UNCHANGED << codecvars, logvars, envvars, outvars, netvars, workervars, supvars >>

\* server_close returns when the workers have ended; then, after a
\* KeyboardInterrupt, the except clause prints "Interrupted"; any other
\* exception goes through the finally clause and leaves the script
JoinWorkers ==
    /\ mainpc \in {"closing", "closing_raised"}
    /\ Ended
    /\ IF mainpc = "closing"
       THEN mainpc' = "print_interrupted" /\ UNCHANGED shutdown_event
       ELSE mainpc' = "raised" /\ shutdown_event' = Finally(shutdown_event)
    /\ UNCHANGED << exit_status, accepted >>
    /\ UNCHANGED << codecvars, logvars, envvars, outvars, netvars, workervars, supvars >>

\* the main thread enters print
MainPrintAcquire ==
    /\ mainpc \in {"print_unreachable", "print_interrupted"}
    /\ PrintAcquire("main")
    /\ UNCHANGED << console, procvars >>
    /\ UNCHANGED << codecvars, logvars, envvars, netvars, workervars, supvars >>

\* the main thread leaves print: after "Could not connect ..." comes
\* sys.exit(1); after "Interrupted" comes the finally clause, which sets
\* shutdown_event, and the end of the script
MainPrintRelease ==
    /\ mainpc \in {"print_unreachable", "print_interrupted"}
    /\ IF mainpc = "print_unreachable"
       THEN /\ PrintRelease("main", "Could not connect to Mongo")
            /\ mainpc' = "exited"
            /\ exit_status' = 1
            /\ UNCHANGED shutdown_event
       ELSE /\ PrintRelease("main", "Interrupted")
            /\ mainpc' = "finished"
            /\ shutdown_event' = Finally(shutdown_event)
            /\ UNCHANGED exit_status
    /\ UNCHANGED accepted
    /\ UNCHANGED << codecvars, logvars, envvars, netvars, workervars, supvars >>

\* the script has run to its end or was left by an exception: the interpreter
\* waits for check_mongo, which is not a daemon thread, and the process exits,
\* with status 0 after the end of the script and 1 after an uncaught exception
ProcessExit ==
    /\ mainpc \in {"finished", "raised"}
    /\ suppc = "exited"
    /\ mainpc' = "exited"
    /\ exit_status' = IF mainpc = "raised" THEN 1 ELSE 0
    /\ UNCHANGED << shutdown_event, accepted >>
    /\ UNCHANGED << codecvars, logvars, envvars, outvars, netvars, workervars, supvars >>

\* the steps the main thread takes by itself
MainThread == Startup \/ JoinWorkers \/ MainPrintAcquire \/ MainPrintRelease \/ ProcessExit

-----------------------------------------------------------------------------
(* main.py: the worker, MongoHandler.handle and proxy *)

\* the orders in which the selector may report the ready sockets of R
Orders(R) ==
    { q \in [1..Cardinality(R) -> R] : \A i, j \in 1..Cardinality(R) : q[i] = q[j] => i = j }

\* EVENT_READ: data, an end of stream or a reset is waiting on s
Readable(s) == rx[s] # << >> \/ remote[s] # "open"

\* a with statement as it would be if its end left the upstream socket open
Close_KeepsSocket(h, r) == h \ (r \ {"mongo_sock"})

\* the end of a with statement over resource r, by return or by exception:
\* socket.__exit__ and BaseSelector.__exit__ close it
Close(h, r) == h \ r

\* leaving proxy and MongoHandler.handle, by return or by exception: the with
\* statements end, the inner one ("with DefaultSelector()") first
Return(h) == Close(Close(h, {"selector"}), {"mongo_sock"})

\* the for loop over selector_events: the next event, or back to select
Continue(evts) ==
    /\ held' = held
    /\ IF evts = << >>
       THEN pc' = "select" /\ events' = << >> /\ sock' = sock
       ELSE pc' = "recv_header" /\ events' = Tail(evts) /\ sock' = Head(evts)

\* the worker thread ends by an exception that nothing in proxy catches;
\* socketserver reports it and goes on serving
Raise(e) ==
    /\ pc' = "crashed"
    /\ error' = e
    /\ held' = Return(held)
    /\ UNCHANGED << events, sock, exit_condition >>

\* the exit_condition proxy chooses: by the socket that was read, and by
\* whether recv raised ConnectionResetError ("reset") or returned b'' ("closed")
ExitCondition(s, kind) ==
    IF s = "peer_sock"
    THEN kind \o " by peer"
    ELSE kind \o " by upstream Mongo for peer"

\* proxy sets exit_condition, then prints the termination and returns
Terminate(kind) ==
    /\ exit_condition' = ExitCondition(sock, kind)
    /\ pc' = "print_exit"
    /\ UNCHANGED << events, sock, error, held >>

\* MongoHandler.handle: create the upstream socket ("with socket(...) as
\* mongo_sock") and connect it; when the upstream refuses, print and return,
\* else run proxy, which first prints the client's address
Connect ==
    /\ pc = "connect"
    /\ \/ pc' = "print_incoming"
       \/ ~mongoUp /\ pc' = "print_refused"
    /\ held' = held \cup {"mongo_sock"}
    /\ UNCHANGED << events, sock, buf, exit_condition, error, rdlog, wrlog >>
    /\ UNCHANGED << codecvars, logvars, procvars, envvars, outvars, netvars, supvars >>

\* the places where the worker calls print, and where it goes on after each
WorkerPrints == { "print_incoming", "print_refused", "print_msg", "print_exit" }

AfterPrint(p) ==
    CASE p = "print_incoming" -> "select"
      [] p = "print_refused"  -> "refused"
      [] p = "print_msg"      -> "send"
      [] p = "print_exit"     -> "exited"

\* what the worker holds after the print at p: after the first print proxy
\* enters "with DefaultSelector() as selector"; after the refusal handle
\* returns out of "with socket(...)"; after the termination proxy returns
HeldAfterPrint(p, h) ==
    CASE p = "print_incoming" -> h \cup {"selector"}
      [] p = "print_refused"  -> Close(h, {"mongo_sock"})
      [] p = "print_msg"      -> h
      [] p = "print_exit"     -> Return(h)

\* the worker enters print
WorkerPrintAcquire ==
    /\ pc \in WorkerPrints
    /\ PrintAcquire("worker")
    /\ UNCHANGED << console, workervars >>
    /\ UNCHANGED << codecvars, logvars, procvars, envvars, netvars, supvars >>

\* the worker leaves print and goes on
WorkerPrintRelease ==
    /\ pc \in WorkerPrints
    /\ PrintRelease("worker", IF pc = "print_refused"
                              THEN "Upstream connection refused: is Mongo up?"
                              ELSE "")
    /\ pc' = AfterPrint(pc)
    /\ held' = HeldAfterPrint(pc, held)
    /\ UNCHANGED << events, sock, buf, exit_condition, error, rdlog, wrlog >>
    /\ UNCHANGED << codecvars, logvars, procvars, envvars, netvars, supvars >>

\* selector.select(timeout=1) returns the ready sockets, or nothing after a
\* second; then the shutdown event is checked, then the for loop starts
Wake ==
    /\ pc = "select"
    /\ \E evts \in Orders({ s \in Socks : Readable(s) }) :
           IF shutdown_event
           THEN pc' = "exited" /\ events' = evts /\ sock' = sock /\ held' = Return(held)
           ELSE Continue(evts)
    /\ UNCHANGED << buf, exit_condition, error, rdlog, wrlog >>
    /\ UNCHANGED << codecvars, logvars, procvars, envvars, outvars, netvars, supvars >>

\* recv_msg, first half: buf = sock.recv(header_size); an empty buf is returned
\* as it is, anything else is unpacked as a header
RecvHeader ==
    /\ pc = "recv_header"
    /\ UNCHANGED << codecvars, logvars, procvars, envvars, outvars, supvars >>
    /\ UNCHANGED << wire, remote, writable, nsent, wrlog >>
    /\ IF remote[sock] = "rst"
       THEN /\ Terminate("reset")
            /\ UNCHANGED << buf, rx, rdlog >>
       ELSE IF rx[sock] = << >>
       THEN /\ remote[sock] = "fin"
            /\ buf' = << >>
            /\ Terminate("closed")
            /\ UNCHANGED << rx, rdlog >>
       ELSE /\ buf' = Take(rx[sock], header_size)
            /\ rx' = [rx EXCEPT ![sock] = Drop(@, header_size)]
            /\ rdlog' = [rdlog EXCEPT ![sock] = @ \o Take(rx[sock], header_size)]
            /\ IF Len(rx[sock]) < header_size
               THEN Raise("MsgHeader.unpack")
               ELSE /\ pc' = "recv_body"
                    /\ UNCHANGED << events, sock, exit_condition, error, held >>

\* recv_msg, second half: buf += sock.recv(header.message_length - header_size)
RecvBody ==
    LET n == MsgHeader(buf).message_length - header_size IN
    /\ pc = "recv_body"
    /\ UNCHANGED << codecvars, logvars, procvars, envvars, outvars, supvars >>
    /\ UNCHANGED << wire, remote, writable, nsent, wrlog >>
    /\ IF n < 0
       THEN /\ Raise("recv")
            /\ UNCHANGED << buf, rx, rdlog >>
       ELSE IF n = 0 \/ (rx[sock] = << >> /\ remote[sock] = "fin")
       THEN /\ pc' = "decode"
            /\ UNCHANGED << buf, rx, rdlog, events, sock, exit_condition, error, held >>
       ELSE IF remote[sock] = "rst"
       THEN /\ Terminate("reset")
            /\ UNCHANGED << buf, rx, rdlog >>
       ELSE /\ rx[sock] # << >>
            /\ buf' = buf \o Take(rx[sock], n)
            /\ rx' = [rx EXCEPT ![sock] = Drop(@, n)]
            /\ rdlog' = [rdlog EXCEPT ![sock] = @ \o Take(rx[sock], n)]
            /\ pc' = "decode"
            /\ UNCHANGED << events, sock, exit_condition, error, held >>

\* msg = unpack_msg(buf), and on to print(msg)
Decode ==
    /\ pc = "decode"
    /\ IF unpack_msg(buf)
       THEN pc' = "print_msg" /\ UNCHANGED << events, sock, exit_condition, error, held >>
       ELSE Raise("unpack_msg")
    /\ UNCHANGED << buf, rdlog, wrlog >>
    /\ UNCHANGED << codecvars, logvars, procvars, envvars, outvars, netvars, supvars >>

\* peer.send(buf): one call of send, which accepts k bytes of buf; the number
\* it returns is not looked at
Send ==
    LET peer == Other(sock) IN
    /\ pc = "send"
    /\ UNCHANGED << codecvars, logvars, procvars, envvars, outvars, netvars, supvars >>
    /\ UNCHANGED << buf, rdlog >>
    /\ IF remote[peer] = "rst"
       THEN Raise("send") /\ UNCHANGED wrlog
       ELSE /\ writable[peer]
            /\ \E k \in { Len(buf) } \cup { j \in ShortWrites : j < Len(buf) } :
                   wrlog' = [wrlog EXCEPT ![peer] = @ \o Take(buf, k)]
            /\ Continue(events)
            /\ UNCHANGED << exit_condition, error >>

proxy ==
    \/ Wake \/ RecvHeader \/ RecvBody \/ Decode \/ Send
    \/ WorkerPrintAcquire \/ WorkerPrintRelease

WorkerNext == Connect \/ proxy

-----------------------------------------------------------------------------
(* main.py: the supervisor, check_mongo *)

\* shutdown_event.wait(...) returns TRUE when the event is set, FALSE after the
\* interval
SupWait ==
    /\ suppc = "wait"
    /\ suppc' = IF shutdown_event THEN "exited" ELSE "probe"
    /\ UNCHANGED << was_up, restarts >>
    /\ UNCHANGED << codecvars, logvars, procvars, envvars, outvars, netvars, workervars >>

\* the body of the loop: probe, and when the state has changed go on to print
\* it and remember it
SupProbe ==
    /\ suppc = "probe"
    /\ suppc' =
           IF is_mongo_up = was_up THEN "wait"
           ELSE IF is_mongo_up THEN "print_up"
           ELSE "print_down"
    /\ UNCHANGED << was_up, restarts >>
    /\ UNCHANGED << codecvars, logvars, procvars, envvars, outvars, netvars, workervars >>

\* check_mongo enters print
SupPrintAcquire ==
    /\ suppc \in {"print_up", "print_down"}
    /\ PrintAcquire("supervisor")
    /\ UNCHANGED << console, supvars >>
    /\ UNCHANGED << codecvars, logvars, procvars, envvars, netvars, workervars >>

\* check_mongo leaves print; was_up = is_up
SupPrintRelease ==
    /\ suppc \in {"print_up", "print_down"}
    /\ PrintRelease("supervisor", IF suppc = "print_up"
                                  THEN "Mongo is back up"
                                  ELSE "Mongo went down")
    /\ was_up' = (suppc = "print_up")
    /\ suppc' = "wait"
    /\ UNCHANGED restarts
    /\ UNCHANGED << codecvars, logvars, procvars, envvars, netvars, workervars >>

check_mongo == SupWait \/ SupProbe \/ SupPrintAcquire \/ SupPrintRelease

\* MongoContainer.restart: kill the container and start a new one.  Nothing in
\* main.py calls it, so it is no disjunct of the next-state relation.
restart ==
    /\ mongoUp' = TRUE
    /\ restarts' = restarts + 1
    /\ UNCHANGED flips
    /\ UNCHANGED << codecvars, logvars, procvars, outvars, netvars, workervars, suppc, was_up >>

-----------------------------------------------------------------------------
(* logger.py: files *)

LThreads == 1..NThreads

\* The bytes of the log are naturals: 0 is the newline that print() writes, and
\* 10 * c + i is the i-th chunk that json.dump writes for the entry of call c.
Newline == 0

Chunk(c, i) == 10 * c + i

\* what a complete call c leaves in the log: its JSON object, then one newline
Line(c) == [i \in 1..(calls[c] + 1) |-> IF i <= calls[c] THEN Chunk(c, i) ELSE Newline]

\* f"{n:03}": the decimal digits of n, padded with zeros to three at least
RECURSIVE Digits(_)
Digits(k) == IF k < 10 THEN << k >> ELSE Append(Digits(k \div 10), k % 10)

Format03(k) ==
    LET d == Digits(k)
    IN  IF Len(d) >= 3 THEN d ELSE [i \in 1..(3 - Len(d)) |-> 0] \o d

\* int(m.group(1)): the number a run of decimal digits stands for
RECURSIVE int(_)
int(d) == IF d = << >> THEN 0 ELSE 10 * int(SubSeq(d, 1, Len(d) - 1)) + d[Len(d)]

Max(a, b) == IF a > b THEN a ELSE b

\* the loop of rotate_log over the files that match log_re, in any order:
\* n = 0; for each: n = max(n, int(digits) + 1)
RECURSIVE ScanFrom(_, _)
ScanFrom(k, names) ==
    IF names = {} THEN k
    ELSE LET nm == CHOOSE x \in names : TRUE
         IN  ScanFrom(Max(k, int(nm) + 1), names \ {nm})

\* rotate_log as it would be if it took the first number not in use
NextSegment_FirstFree(names) ==
    CHOOSE k \in 0..Cardinality(names) :
        /\ k \notin { int(nm) : nm \in names }
        /\ \A j \in 0..(k - 1) : j \in { int(nm) : nm \in names }

\* rotate_log as it would be without the +1
RECURSIVE MaxFrom(_, _)
MaxFrom(k, names) ==
    IF names = {} THEN k
    ELSE LET nm == CHOOSE x \in names : TRUE
         IN  MaxFrom(Max(k, int(nm)), names \ {nm})

NextSegment_NoIncrement(names) == MaxFrom(0, names)

\* rotate_log as it would be if it numbered by the count of the segments
NextSegment_Count(names) == Cardinality(names)

NextSegment(names) == ScanFrom(0, names)

\* log_entry as it would be with >= for >
OverThreshold_AtOrOver(size) == size >= Threshold

\* os.fstat(log_file.fileno()).st_size > threshold
OverThreshold(size) == size > Threshold

\* the segment names that may be in the directory when init() runs: numbered
\* as rotate_log numbers them, and one written without padding (<log>.0.gz)
PreNames == { Format03(1), << 0 >> }

\* what a segment left by an earlier run holds, and what the log may hold
OldSegment == << 80, Newline >>

OldLogs == { << >>, << 90, 91, Newline >> }

\* the directory with the file name written with content c (created or replaced)
WithFile(dir, name, c) ==
    [x \in (DOMAIN dir) \cup {name} |-> IF x = name THEN c ELSE dir[x]]

\* the directory without the file name
WithoutFile(dir, name) == [x \in (DOMAIN dir) \ {name} |-> dir[x]]

-----------------------------------------------------------------------------
(* logger.py: log, log_entry, rotate_log *)

\* before init(): main.py never calls init() or log()
LogNone ==
    /\ log_lock = 0
    /\ log_file = "None"
    /\ fbuf = << >>
    /\ disk = << >>
    /\ segs = << >>
    /\ lpc = [t \in LThreads |-> "idle"]
    /\ entry = [t \in LThreads |-> 0]
    /\ written = [t \in LThreads |-> 0]
    /\ rotate_n = [t \in LThreads |-> 0]
    /\ calls = << >>
    /\ order = << >>
    /\ returned = {}
    /\ created = << >>
    /\ scanned = << >>
    /\ pre = [disk |-> << >>, rotations |-> 0]
    /\ initial = [disk |-> << >>, names |-> {}]
    /\ deleted = FALSE

\* init(log_path, log_rotation_threshold): log_file = open(log_path, "a") on a
\* log that is new or left by an earlier run, in a directory with or without
\* segments
LogInit ==
    /\ log_lock = 0
    /\ log_file = "a"
    /\ fbuf = << >>
    /\ disk \in OldLogs
    /\ \E names \in SUBSET PreNames : segs = [x \in names |-> OldSegment]
    /\ lpc = [t \in LThreads |-> "idle"]
    /\ entry = [t \in LThreads |-> 0]
    /\ written = [t \in LThreads |-> 0]
    /\ rotate_n = [t \in LThreads |-> 0]
    /\ calls = << >>
    /\ order = << >>
    /\ returned = {}
    /\ created = << >>
    /\ scanned = << >>
    /\ pre = [disk |-> << >>, rotations |-> 0]
    /\ initial = [disk |-> disk, names |-> DOMAIN segs]
    /\ deleted = FALSE

\* a thread calls log(): log_file is not None, the entry is built (an entry
\* that json.dump writes in k chunks), and the thread goes for log_lock
LogCall(t, k) ==
    /\ lpc[t] = "idle"
    /\ log_file # "None"
    /\ Len(calls) < MaxCalls
    /\ calls' = Append(calls, k)
    /\ entry' = [entry EXCEPT ![t] = Len(calls) + 1]
    /\ lpc' = [lpc EXCEPT ![t] = "lock"]
    /\ UNCHANGED << log_lock, log_file, fbuf, disk, segs, written, rotate_n, order, returned,
                    created, scanned, pre, initial, deleted >>
    /\ UNCHANGED << mainvars, codecvars >>

\* log as it would be without log_lock
LockFree_NoLock == TRUE

\* with log_lock: the lock is taken when it is free
LockFree == log_lock = 0

\* with log_lock: ... t.start(): the thread holds the lock and log_entry starts
Acquire(t) ==
    /\ lpc[t] = "lock"
    /\ LockFree
    /\ log_lock' = t
    /\ order' = Append(order, entry[t])
    /\ lpc' = [lpc EXCEPT ![t] = "size"]
    /\ UNCHANGED << log_file, fbuf, disk, segs, entry, written, rotate_n, calls, returned,
                    created, scanned, pre, initial, deleted >>
    /\ UNCHANGED << mainvars, codecvars >>

\* log_entry: if os.fstat(log_file.fileno()).st_size > threshold: rotate_log()
CheckSize(t) ==
    /\ lpc[t] = "size"
    /\ log_file \in {"a", "w"}
    /\ pre' = [disk |-> disk, rotations |-> Len(created)]
    /\ lpc' = [lpc EXCEPT ![t] = IF OverThreshold(Len(disk)) THEN "rotate" ELSE "dump"]
    /\ UNCHANGED << log_lock, log_file, fbuf, disk, segs, entry, written, rotate_n, calls, order,
                    returned, created, scanned, initial, deleted >>
    /\ UNCHANGED << mainvars, codecvars >>

\* rotate_log: find n among the files of the directory, then log_file.close(),
\* which writes out what the handle still buffers
RotateScan(t) ==
    /\ lpc[t] = "rotate"
    /\ rotate_n' = [rotate_n EXCEPT ![t] = NextSegment(DOMAIN segs)]
    /\ scanned' = Append(scanned, DOMAIN segs)
    /\ disk' = disk \o fbuf
    /\ fbuf' = << >>
    /\ log_file' = "closed"
    /\ lpc' = [lpc EXCEPT ![t] = "copy"]
    /\ UNCHANGED << log_lock, segs, entry, written, calls, order, returned, created, pre,
                    initial, deleted >>
    /\ UNCHANGED << mainvars, codecvars >>

\* rotate_log: with open(log_path, "rb") as log_file: copy it into
\* gzip.open(f"{log_path}.{n:03}.gz", "wb"); the segment holds the log's bytes
\* (compressed; the model keeps what decompressing gives)
RotateCopy(t) ==
    /\ lpc[t] = "copy"
    /\ segs' = WithFile(segs, Format03(rotate_n[t]), disk)
    /\ created' = Append(created, Format03(rotate_n[t]))
    /\ log_file' = "closed"
    /\ lpc' = [lpc EXCEPT ![t] = "reopen"]
    /\ UNCHANGED << log_lock, fbuf, disk, entry, written, rotate_n, calls, order, returned,
                    scanned, pre, initial, deleted >>
    /\ UNCHANGED << mainvars, codecvars >>

\* rotate_log: log_file = open(log_path, "w"), which empties the log
RotateReopen(t) ==
    /\ lpc[t] = "reopen"
    /\ disk' = << >>
    /\ fbuf' = << >>
    /\ log_file' = "w"
    /\ lpc' = [lpc EXCEPT ![t] = "dump"]
    /\ UNCHANGED << log_lock, segs, entry, written, rotate_n, calls, order, returned, created,
                    scanned, pre, initial, deleted >>
    /\ UNCHANGED << mainvars, codecvars >>

rotate_log(t) == RotateScan(t) \/ RotateCopy(t) \/ RotateReopen(t)

\* log_entry: json.dump(entry, log_file, ...) writes the entry chunk by chunk
Dump(t) ==
    /\ lpc[t] = "dump"
    /\ log_file \in {"a", "w"}
    /\ fbuf' = Append(fbuf, Chunk(entry[t], written[t] + 1))
    /\ written' = [written EXCEPT ![t] = @ + 1]
    /\ lpc' = [lpc EXCEPT ![t] = IF written[t] + 1 = calls[entry[t]] THEN "flush" ELSE "dump"]
    /\ UNCHANGED << log_lock, log_file, disk, segs, entry, rotate_n, calls, order, returned,
                    created, scanned, pre, initial, deleted >>
    /\ UNCHANGED << mainvars, codecvars >>

\* log_entry: print(file=log_file, flush=True) writes the newline and flushes
Flush(t) ==
    /\ lpc[t] = "flush"
    /\ log_file \in {"a", "w"}
    /\ disk' = disk \o Append(fbuf, Newline)
    /\ fbuf' = << >>
    /\ lpc' = [lpc EXCEPT ![t] = "unlock"]
    /\ UNCHANGED << log_lock, log_file, segs, entry, written, rotate_n, calls, order, returned,
                    created, scanned, pre, initial, deleted >>
    /\ UNCHANGED << mainvars, codecvars >>

log_entry(t) == CheckSize(t) \/ rotate_log(t) \/ Dump(t) \/ Flush(t)

\* t.join() returns, log_lock is released and log() returns
Release(t) ==
    /\ lpc[t] = "unlock"
    /\ log_lock' = 0
    /\ returned' = returned \cup { entry[t] }
    /\ written' = [written EXCEPT ![t] = 0]
    /\ lpc' = [lpc EXCEPT ![t] = "idle"]
    /\ UNCHANGED << log_file, fbuf, disk, segs, entry, rotate_n, calls, order, created, scanned,
                    pre, initial, deleted >>
    /\ UNCHANGED << mainvars, codecvars >>

log(t) == (\E k \in 1..2 : LogCall(t, k)) \/ Acquire(t) \/ log_entry(t) \/ Release(t)

\* a write to the log file fails (the disk is full, the entry cannot be
\* serialized): the exception ends the thread that runs log_entry, and join()
\* returns as after any other end of that thread
WriteFails(t) ==
    /\ lpc[t] \in {"dump", "flush"}
    /\ lpc' = [lpc EXCEPT ![t] = "unlock"]
    /\ UNCHANGED << log_lock, log_file, fbuf, disk, segs, entry, written, rotate_n, calls, order,
                    returned, created, scanned, pre, initial, deleted >>
    /\ UNCHANGED << mainvars, codecvars >>

\* rotate_log fails after log_file.close(): gzip.open or the copy raises, or
\* the open(log_path, "w") that follows.  The with statement has bound the
\* global log_file to the handle it opened for reading and has closed it; the
\* exception ends the thread that runs log_entry
RotateFails(t) ==
    /\ lpc[t] \in {"copy", "reopen"}
    /\ log_file' = "closed"
    /\ lpc' = [lpc EXCEPT ![t] = "unlock"]
    /\ UNCHANGED << log_lock, fbuf, disk, segs, entry, written, rotate_n, calls, order,
                    returned, created, scanned, pre, initial, deleted >>
    /\ UNCHANGED << mainvars, codecvars >>

\* log_entry on a handle that a failed rotation left closed: log_file.fileno()
\* raises ValueError, which ends the thread that runs log_entry
ClosedHandleFails(t) ==
    /\ lpc[t] = "size"
    /\ log_file = "closed"
    /\ lpc' = [lpc EXCEPT ![t] = "unlock"]
    /\ UNCHANGED << log_lock, log_file, fbuf, disk, segs, entry, written, rotate_n, calls,
                    order, returned, created, scanned, pre, initial, deleted >>
    /\ UNCHANGED << mainvars, codecvars >>

\* someone removes a rotated segment from the directory
DeleteSegment(name) ==
    /\ name \in DOMAIN segs
    /\ ~deleted
    /\ segs' = WithoutFile(segs, name)
    /\ deleted' = TRUE
    /\ UNCHANGED << log_lock, log_file, fbuf, disk, lpc, entry, written, rotate_n, calls, order,
                    returned, created, scanned, pre, initial >>
    /\ UNCHANGED << mainvars, codecvars >>

LogNext ==
    \/ \E t \in LThreads : log(t)
    \/ \E name \in DOMAIN segs : DeleteSegment(name)

LogFaultNext ==
    \/ LogNext
    \/ \E t \in LThreads : WriteFails(t)
    \/ \E t \in LThreads : RotateFails(t)
    \/ \E t \in LThreads : ClosedHandleFails(t)

-----------------------------------------------------------------------------
(* messages.py: the decoder, unpack_msg and what it dispatches to *)

\* CompressorId
NOOP == 0
SNAPPY == 1
ZLIB == 2
ZSTD == 3

\* MsgMsgSectionKind
BODY == 0
DOCUMENT_SEQUENCE == 1

\* FlagBit.CHECKSUM_PRESENT
CHECKSUM_PRESENT == 1

\* the keys of messages.py's msg_unpackers: all nine op codes
messages_msg_unpackers ==
    { OP_REPLY, OP_UPDATE, OP_INSERT, OP_QUERY, OP_GET_MORE, OP_DELETE,
      OP_KILL_CURSORS, OP_COMPRESSED, OP_MSG }

\* the keys of section_unpackers
section_unpackers == { BODY, DOCUMENT_SEQUENCE }

\* decompressors as it would be with an entry for every compressor id
decompressors_AnyId == 0..255

\* the keys of decompressors
decompressors == { NOOP, SNAPPY, ZLIB, ZSTD }

\* header.pack()
MsgHeader_pack(h) ==
    Int32Bytes(h.message_length) \o Int32Bytes(h.request_id)
        \o Int32Bytes(h.response_to) \o Int32Bytes(h.op_code)

\* int.from_bytes(b, "little", signed=False)
RECURSIVE from_bytes(_)
from_bytes(b) == IF b = << >> THEN 0 ELSE b[1] + 256 * from_bytes(Tail(b))

\* The compression libraries are not part of the repository.  In the model
\* the compressed form of data is data behind one byte that names the format;
\* decompressing checks that byte and removes it.  NOOP is the identity, as
\* in the code.
FormatByte(id) == 200 + id

Compress(id, data) == IF id = NOOP THEN data ELSE << FormatByte(id) >> \o data

\* decompressors[id](data) returns (TRUE) or raises (FALSE)
Decompresses(id, data) == id = NOOP \/ (data # << >> /\ data[1] = FormatByte(id))

\* what decompressors[id](data) returns
Decompress(id, data) == IF id = NOOP THEN data ELSE Tail(data)

\* the struct unpackers of the seven plain messages: the fixed-width fields
\* must be there
StructUnpacks(b) ==
    IF MsgHeader(b).op_code = OP_KILL_CURSORS
    THEN KillCursorsUnpacks(b)
    ELSE Len(b) >= header_size + FixedPayload(MsgHeader(b).op_code)

\* Array(MsgSection): MsgSection.unpack on what is left until nothing is left.
\* The result is "" when every section unpacks, else the exception.
RECURSIVE MsgSections(_)
MsgSections(b) ==
    IF b = << >> THEN ""
    ELSE LET kind == b[1]
             length == from_bytes(SubSeq(b, 2, Min(5, Len(b))))
             body == SubSeq(b, 2, Min(1 + length, Len(b)))
             rest == Drop(b, 1 + length)
         IN  IF kind \notin section_unpackers THEN "RuntimeError: Invalid section kind"
             ELSE IF Len(body) < 5 THEN "bson.errors.InvalidBSON"
             ELSE MsgSections(rest)

\* unpack_msgmsg: drop the checksum when the flag says there is one, then
\* MsgMsg.unpack
unpack_msgmsg(b) ==
    IF Len(b) < header_size + 4 THEN "struct.error"
    ELSE LET flag_bits == from_bytes(SubSeq(b, header_size + 1, header_size + 4))
             cut == IF flag_bits % 2 = CHECKSUM_PRESENT
                    THEN SubSeq(b, 1, Len(b) - 4)
                    ELSE b
         IN  IF Len(cut) < header_size + 4 THEN "struct.error"
             ELSE MsgSections(Drop(cut, header_size + 4))

\* CompressedMsg.unpack: the fields after the header
CompressedMsg(b) ==
    [ header             |-> MsgHeader(b),
      original_opcode    |-> Int32At(b, header_size),
      uncompressed_size  |-> Int32At(b, header_size + 4),
      compressor_id      |-> b[header_size + 9],
      compressed_message |-> Drop(b, header_size + 9) ]

\* unpack_compressed: the header it builds for the inner message
InnerHeader(msg) ==
    [ message_length |-> 4 + msg.uncompressed_size,
      request_id     |-> msg.header.request_id,
      response_to    |-> msg.header.response_to,
      op_code        |-> msg.original_opcode ]

-----------------------------------------------------------------------------
(* The frames given to the decoder *)

\* A frame is built from a description: the op code of the innermost message,
\* the kinds of its sections and whether a checksum follows them (OP_MSG
\* only), and the compressor ids of the OP_COMPRESSED layers around it,
\* outermost first.
InnerOps == { OP_KILL_CURSORS, OP_QUERY, OP_MSG, 0, 9999 }

CompressorIds == { NOOP, SNAPPY, ZLIB, ZSTD, 4, 255 }

SectionKinds == { BODY, DOCUMENT_SEQUENCE, 2, 255 }

SeqsUpTo(S, n) == UNION { [1..k -> S] : k \in 0..n }

Descs ==
    { [ op |-> o, kinds |-> ks, checksum |-> c, wraps |-> w ] :
        o \in InnerOps, ks \in SeqsUpTo(SectionKinds, 2), c \in BOOLEAN,
        w \in SeqsUpTo(CompressorIds, MaxNest) }

\* the descriptions of frames: sections and checksum are for OP_MSG only
CodecFrames ==
    { d \in Descs :
        IF d.op = OP_MSG THEN d.kinds # << >> ELSE d.kinds = << >> /\ ~d.checksum }

NoDesc == [ op |-> 0, kinds |-> << >>, checksum |-> FALSE, wraps |-> << >> ]

\* one section: the kind, then five bytes that are an empty BSON document
\* (BODY) or a size and an empty identifier (DOCUMENT_SEQUENCE)
SectionBytes(kind) == << kind >> \o Int32Bytes(5) \o << 0 >>

RECURSIVE SectionsBytes(_)
SectionsBytes(ks) ==
    IF ks = << >> THEN << >> ELSE SectionBytes(Head(ks)) \o SectionsBytes(Tail(ks))

\* what follows the header in the innermost message
BodyBytes(d) ==
    CASE d.op = OP_MSG ->
             Int32Bytes(IF d.checksum THEN CHECKSUM_PRESENT ELSE 0)
                 \o SectionsBytes(d.kinds)
                 \o (IF d.checksum THEN << 11, 12, 13, 14 >> ELSE << >>)
      [] d.op = OP_KILL_CURSORS -> Int32Bytes(0) \o Int32Bytes(0)
      [] d.op = OP_QUERY -> Int32Bytes(0) \o << 97, 0 >> \o Int32Bytes(0) \o Int32Bytes(1)
                                \o Int32Bytes(5) \o << 0 >>
      [] OTHER -> << 1, 2 >>

\* the body of an OP_COMPRESSED message around a message with op code op and
\* body b
CompressedBody(id, op, b) ==
    Int32Bytes(op) \o Int32Bytes(Len(b)) \o << id >> \o Compress(id, b)

\* the op code and body left after wrapping the layers w, innermost last
RECURSIVE Wrapped(_, _, _)
Wrapped(w, op, b) ==
    IF w = << >> THEN [ op |-> op, body |-> b ]
    ELSE LET in == Wrapped(Tail(w), op, b)
         IN  [ op |-> OP_COMPRESSED, body |-> CompressedBody(Head(w), in.op, in.body) ]

\* the frame on the wire: request_id 7, response_to 3
FrameOf(d) ==
    LET m == Wrapped(d.wraps, d.op, BodyBytes(d))
    IN  Int32Bytes(header_size + Len(m.body)) \o Int32Bytes(7) \o Int32Bytes(3)
            \o Int32Bytes(m.op) \o m.body

-----------------------------------------------------------------------------
(* messages.py: one call of unpack_msg, step by step *)

\* no frame is being decoded
CodecNone ==
    /\ desc = NoDesc
    /\ stack = << >>
    /\ cpc = "idle"
    /\ cerror = ""

\* unpack_msg(buf) is called on a frame
CodecInit ==
    /\ desc \in CodecFrames
    /\ stack = << FrameOf(desc) >>
    /\ cpc = "unpack_msg"
    /\ cerror = ""

\* the buffer of the innermost call
Top == stack[Len(stack)]

\* the decoder raises e
CodecRaise(e) ==
    /\ cpc' = "raised"
    /\ cerror' = e
    /\ UNCHANGED << desc, stack >>

\* unpack_msg: unpack the header, look the op code up, call the unpacker; the
\* plain struct unpackers return or raise at once
messages_unpack_msg ==
    /\ cpc = "unpack_msg"
    /\ IF Len(Top) < header_size THEN CodecRaise("struct.error")
       ELSE IF MsgHeader(Top).op_code \notin messages_msg_unpackers
       THEN CodecRaise("RuntimeError: Invalid opcode")
       ELSE IF MsgHeader(Top).op_code = OP_COMPRESSED
       THEN cpc' = "unpack_compressed" /\ UNCHANGED << desc, stack, cerror >>
       ELSE IF MsgHeader(Top).op_code = OP_MSG
       THEN cpc' = "unpack_msgmsg" /\ UNCHANGED << desc, stack, cerror >>
       ELSE IF StructUnpacks(Top)
       THEN cpc' = "returned" /\ UNCHANGED << desc, stack, cerror >>
       ELSE CodecRaise("struct.error")
    /\ UNCHANGED << mainvars, logvars >>

\* unpack_compressed: unpack the fields, decompress, put a header before the
\* data and call unpack_msg on the result
unpack_compressed ==
    /\ cpc = "unpack_compressed"
    /\ IF Len(Top) < header_size + 9 THEN CodecRaise("struct.error")
       ELSE LET msg == CompressedMsg(Top) IN
            IF msg.compressor_id \notin decompressors THEN CodecRaise("KeyError")
            ELSE IF ~Decompresses(msg.compressor_id, msg.compressed_message)
            THEN CodecRaise("decompression error")
            ELSE /\ stack' = Append(stack, MsgHeader_pack(InnerHeader(msg))
                                       \o Decompress(msg.compressor_id, msg.compressed_message))
                 /\ cpc' = "unpack_msg"
                 /\ UNCHANGED << desc, cerror >>
    /\ UNCHANGED << mainvars, logvars >>

\* unpack_msgmsg returns or raises
UnpackMsgMsg ==
    /\ cpc = "unpack_msgmsg"
    /\ IF unpack_msgmsg(Top) = ""
       THEN cpc' = "returned" /\ UNCHANGED << desc, stack, cerror >>
       ELSE CodecRaise(unpack_msgmsg(Top))
    /\ UNCHANGED << mainvars, logvars >>

CodecNext == messages_unpack_msg \/ unpack_compressed \/ UnpackMsgMsg

-----------------------------------------------------------------------------
(* The system of main.py *)

Init == MainInit /\ LogNone /\ CodecNone

\* what comes from outside: the network, the upstream, clients, the operator
EnvNext == NetNext \/ MongoFlip \/ Accept \/ SetShutdown \/ ServeRaises

Next == EnvNext \/ MainThread \/ WorkerNext \/ check_mongo

Spec == Init /\ [][Next]_vars

\* the first client is accepted
FirstAccept == accepted = 0 /\ Accept

\* the upstream stops answering and does not come back
FirstFlip == flips = 0 /\ MongoFlip

\* a run with one client and one failure of the upstream
FairNext ==
    \/ NetNext \/ FirstFlip \/ FirstAccept \/ SetShutdown \/ ServeRaises
    \/ MainThread \/ WorkerNext \/ check_mongo

\* Threads are scheduled fairly; the remote ends, the clients and the operator
\* are not obliged to do anything.
FairSpec ==
    /\ Init
    /\ [][FairNext]_vars
    /\ WF_vars(MainThread) /\ WF_vars(WorkerNext) /\ WF_vars(check_mongo)

\* logger.py, called from any number of threads after init()
LogSystemInit == MainInit /\ LogInit /\ CodecNone

LogSpec == LogSystemInit /\ [][LogNext]_vars

\* logger.py with its threads scheduled fairly
LogFairSpec == LogSpec /\ \A t \in LThreads : WF_vars(log(t))

\* logger.py when writes to the log file may fail
LogFaultSpec == LogSystemInit /\ [][LogFaultNext]_vars

\* messages.py: unpack_msg called on one frame
CodecSystemInit == MainInit /\ LogNone /\ CodecInit

CodecSpec == CodecSystemInit /\ [][CodecNext]_vars

-----------------------------------------------------------------------------
(* Claims about main.py *)

\* C1: whenever the worker is back at the head of its loop, the bytes written
\* to each socket are exactly the bytes read from the opposite socket, in the
\* same order (nothing lost, repeated, reordered or echoed), also when recv
\* returned fewer bytes than asked or send accepted fewer than offered.
C1_FramePreservation ==
    pc = "select" => \A s \in Socks : wrlog[Other(s)] = rdlog[s]

\* C2: a buffer that recv_msg returns (anything but the end-of-stream and reset
\* signals) is as long as the message_length of its header says.
C2_WholeFrame ==
    pc = "decode" => Len(buf) = MsgHeader(buf).message_length

\* C3: when unpack_msg fails on a received frame, the worker goes on to forward
\* that frame unchanged and stays in its loop.
C3_DecodeErrorForwards ==
    [][ (pc = "decode" /\ pc' # pc /\ ~unpack_msg(buf)) => (pc' = "send" /\ buf' = buf) ]_vars

\* C4: once the shutdown event is set, neither the worker nor the supervisor is
\* ever left waiting for something only a remote end can provide: each has
\* ended or can take its next step by itself, whatever the state of the sockets.
C4_ShutdownNeverBlocked ==
    shutdown_event =>
        /\ Ended \/ ENABLED WorkerNext
        /\ suppc = "exited" \/ ENABLED check_mongo

\* C4, as a property of behaviours: under fair scheduling of the threads, once
\* the shutdown event is set the worker and the supervisor eventually end.
C4_ShutdownLiveness ==
    shutdown_event ~> (Ended /\ suppc = "exited")

\* C10: every probe that finds the upstream unresponsive goes on to report it
\* down and runs the upstream's restart operation.
C10_RestartOnEveryFailure ==
    [][ (suppc = "probe" /\ suppc' # suppc /\ ~is_mongo_up) =>
            /\ suppc' = "print_down"
            /\ restarts' = restarts + 1 ]_vars

\* what the recv the worker is about to make meets on its socket: a reset, an
\* end of stream (nothing left to read and the remote end has closed), or
\* neither; the second recv of recv_msg is made for a positive number of bytes
RecvSignal ==
    IF pc = "recv_body" /\ MsgHeader(buf).message_length <= header_size THEN "none"
    ELSE IF remote[sock] = "rst" THEN "reset"
    ELSE IF rx[sock] = << >> /\ remote[sock] = "fin" THEN "closed"
    ELSE "none"

\* C11: a worker whose read meets an end of stream or a reset ends with the one
\* termination that the socket and the event choose (closed / reset, by peer /
\* by upstream); a termination, once reported, is never replaced, and after it
\* the worker stays ended and writes nothing more to either socket.
C11_TerminationTaxonomy ==
    [][ /\ (pc \in {"recv_header", "recv_body"} /\ pc' # pc /\ RecvSignal # "none") =>
              /\ pc' = "print_exit"
              /\ exit_condition' = ExitCondition(sock, RecvSignal)
        /\ (exit_condition # "" /\ accepted' = accepted) =>
              /\ exit_condition' = exit_condition
              /\ pc' \in {"print_exit", "exited"}
              /\ wrlog' = wrlog ]_vars

\* C12: the step that forwards a frame leaves every byte of the frame written
\* to the other socket (a short write is made up for), or, when the write
\* meets a reset, ends the worker with the "reset" termination of the socket
\* written to instead of an exception leaving proxy.
C12_SendRetries ==
    [][ (pc = "send" /\ pc' # pc) =>
            IF remote[Other(sock)] = "rst"
            THEN /\ pc' = "print_exit"
                 /\ exit_condition' = ExitCondition(Other(sock), "reset")
            ELSE wrlog'[Other(sock)] = wrlog[Other(sock)] \o buf ]_vars

\* C13: after a header whose message_length is below 16 or above MAX_MESSAGE,
\* recv_msg ends in an error and reads nothing more from the socket.
C13_LengthBounds ==
    [][ ( /\ pc = "recv_body"
          /\ pc' # pc
          /\ ~( /\ header_size <= MsgHeader(buf).message_length
                /\ MsgHeader(buf).message_length <= MAX_MESSAGE ) ) =>
            /\ pc' = "crashed"
            /\ rx' = rx
            /\ buf' = buf ]_vars

\* line was printed
Printed(line) == \E i \in 1..Len(console) : console[i] = line

\* C18: when the process has exited, its exit status is 0 or 1, and it is 1
\* if the run was ended by a keyboard interrupt or if the upstream did not
\* answer at startup: 0 is the status of no such run.
C18_ExitStatus ==
    mainpc = "exited" =>
        /\ exit_status \in {0, 1}
        /\ (Printed("Interrupted") \/ Printed("Could not connect to Mongo")) => exit_status = 1

LockDiscipline ==
    /\ output_lock \in MainThreads \cup { "" }
    /\ output_lock = "worker" => pc \in WorkerPrints
    /\ output_lock = "supervisor" => suppc \in {"print_up", "print_down"}
    /\ output_lock = "main" => mainpc \in {"print_unreachable", "print_interrupted"}
    /\ log_lock \in LThreads \cup { 0 }
    /\ log_lock # 0 => lpc[log_lock] \in {"size", "rotate", "copy", "reopen", "dump", "flush", "unlock"}

InLoop == pc \in {"select", "recv_header", "recv_body", "decode", "print_msg", "send", "print_exit"}

\* C21: a worker inside the proxy loop holds its upstream socket and its
\* selector, and a worker that has ended, by whichever path (shutdown observed,
\* end of stream, reset, upstream refused, or an exception raised while
\* receiving, decoding or forwarding), holds neither: no path out of the worker
\* leaves the upstream socket or the selector open.
C21_ResourcesReleased ==
    /\ InLoop => held = {"mongo_sock", "selector"}
    /\ pc \in {"refused", "exited", "crashed"} => held = {}

\* C21 witness: a worker has ended by an exception raised by send, after it
\* had received and decoded a frame
C21_Witness ==
    /\ pc = "crashed"
    /\ error = "send"
    /\ rdlog["peer_sock"] # << >>
    /\ held = {}

\* check_mongo was started in its thread and the accept loop has stopped:
\* serve_forever was left by KeyboardInterrupt or by another exception, or the
\* server could not be created
AcceptLoopGone == suppc # "idle" /\ mainpc \notin {"startup", "serving"}

\* C22: on every path by which the accept loop stops after check_mongo was
\* started (keyboard interrupt, any other exception, failure to create the
\* server) shutdown_event is set; once set it is never cleared; and so, the
\* threads being scheduled fairly, check_mongo ends after the accept loop has
\* stopped.
C22_ShutdownOnEveryPath ==
    /\ [](AcceptLoopGone => shutdown_event)
    /\ [][shutdown_event => shutdown_event']_vars
    /\ AcceptLoopGone ~> (suppc = "exited")

\* C22 witness: serve_forever was left by an exception other than
\* KeyboardInterrupt while a client was connected, and check_mongo has ended
C22_Witness ==
    /\ mainpc = "raised"
    /\ accepted = 1
    /\ shutdown_event
    /\ suppc = "exited"

-----------------------------------------------------------------------------
(* Claims about logger.py *)

\* the thread is between taking log_lock and releasing it
InSection(t) == lpc[t] \in {"size", "rotate", "copy", "reopen", "dump", "flush", "unlock"}

\* no call of log() is under way past the lock
Quiescent == \A t \in LThreads : ~InSection(t)

RECURSIVE ConcatLines(_)
ConcatLines(q) == IF q = << >> THEN << >> ELSE Line(Head(q)) \o ConcatLines(Tail(q))

RECURSIVE SegmentBytes(_)
SegmentBytes(q) == IF q = << >> THEN << >> ELSE segs[Head(q)] \o SegmentBytes(Tail(q))

\* the segments rotate_log wrote, read in the order of their creation, then
\* the active file
LogOutput == SegmentBytes(created) \o disk

\* what the calls of log() added to what the log held at init()
Logged == Drop(LogOutput, Len(initial.disk))

\* b cut after each newline; anything after the last newline is a last, open line
RECURSIVE SplitLines(_, _)
SplitLines(cur, rest) ==
    IF rest = << >> THEN (IF cur = << >> THEN << >> ELSE << cur >>)
    ELSE IF Head(rest) = Newline THEN << Append(cur, Newline) >> \o SplitLines(<< >>, Tail(rest))
    ELSE SplitLines(Append(cur, Head(rest)), Tail(rest))

\* b is empty or ends with a newline
WholeLines(b) == b = << >> \/ b[Len(b)] = Newline

\* C5: at most one thread is inside log_entry / rotate_log at a time, and when
\* no call is under way the log output holds, after what it held at init(),
\* exactly one complete line per call made: N lines for N calls, each the whole
\* JSON object of one call followed by one newline.
C5_AtomicLines ==
    /\ Cardinality({ t \in LThreads : InSection(t) }) <= 1
    /\ (Quiescent /\ ~deleted) =>
          LET L == SplitLines(<< >>, Logged) IN
          /\ IsPrefix(initial.disk, LogOutput)
          /\ Len(L) = Cardinality(returned)
          /\ \A c \in returned : Cardinality({ i \in 1..Len(L) : L[i] = Line(c) }) = 1

\* C5 witness: two calls are complete, and the one issued later took the lock first
C5_Witness ==
    /\ Quiescent
    /\ Cardinality(returned) >= 2
    /\ order[1] > order[2]

\* C6: when no call is under way, the segments in creation order followed by
\* the active file hold, after what the log held at init(), the lines of the
\* calls that returned, in the order the calls took log_lock, each once, and
\* every file ends at the end of a line.
C6_NoLineLost ==
    (Quiescent /\ ~deleted) =>
        /\ LogOutput = initial.disk \o ConcatLines(order)
        /\ { order[i] : i \in 1..Len(order) } = returned
        /\ WholeLines(disk)
        /\ \A name \in DOMAIN segs : WholeLines(segs[name])

\* C7: the number rotate_log gives a new segment is the smallest k for which
\* the directory holds no file <log>.<k, three digits>.gz.
C7_SmallestFree ==
    \A i \in 1..Len(created) :
        /\ Format03(int(created[i])) \notin scanned[i]
        /\ \A j \in 0..(int(created[i]) - 1) : Format03(j) \in scanned[i]

\* C7 as amended: the number rotate_log gives a new segment is 0 when the
\* directory holds no segment, and otherwise one more than the largest number
\* written in the name of a segment the directory holds.
C7_OnePastLargest ==
    \A i \in 1..Len(created) :
        LET nums == { int(nm) : nm \in scanned[i] }
            k == int(created[i])
        IN  /\ created[i] = Format03(k)
            /\ nums = {} => k = 0
            /\ nums # {} => (k - 1 \in nums /\ \A m \in nums : m < k)

\* C7 witness: a rotation found segment 001 and no segment 000, and wrote 002
C7_Witness ==
    \E i \in 1..Len(created) :
        /\ scanned[i] = { Format03(1) }
        /\ created[i] = Format03(2)

\* C8: from a directory without segments, and with no segment removed, after K
\* rotations the segments present are 000 .. K-1 and the i-th rotation wrote
\* segment i-1.
C8_RotationMonotonic ==
    (initial.names = {} /\ ~deleted) =>
        /\ \A i \in 1..Len(created) : created[i] = Format03(i - 1)
        /\ DOMAIN segs = { Format03(i - 1) : i \in 1..Len(created) }

\* C8 witness: two rotations from a directory without segments
C8_Witness ==
    /\ initial.names = {}
    /\ ~deleted
    /\ Len(created) = 2
    /\ DOMAIN segs = { Format03(0), Format03(1) }

\* C9: a call rotates exactly when the log is larger than the threshold when
\* log_entry looks at it, before writing: at the end of a call that found it
\* larger, one new segment holds what the log held and the log holds the new
\* entry alone; at the end of a call that found it at or below the threshold,
\* no segment was written and the entry was appended.
C9_RotateBeforeWrite ==
    \A t \in LThreads :
        lpc[t] = "unlock" =>
            IF Len(pre.disk) > Threshold
            THEN /\ Len(created) = pre.rotations + 1
                 /\ created[Len(created)] \in DOMAIN segs =>
                        segs[created[Len(created)]] = pre.disk
                 /\ disk = Line(entry[t])
            ELSE /\ Len(created) = pre.rotations
                 /\ disk = pre.disk \o Line(entry[t])

\* C9 witness: a call that rotated ends after a call that found the log exactly
\* at the threshold and appended
C9_Witness ==
    \E t \in LThreads :
        /\ lpc[t] = "unlock"
        /\ Len(pre.disk) > Threshold
        /\ created[Len(created)] \in DOMAIN segs
        /\ \E c \in returned : Len(Line(c)) = Threshold /\ IsPrefix(Line(c), pre.disk)

\* line occurs in b as a run of consecutive bytes
Contains(b, line) ==
    \E i \in 1..(Len(b) - Len(line) + 1) : SubSeq(b, i, i + Len(line) - 1) = line

\* C14: a call of log() whose entry was not completely written (the write, the
\* serialization or the rotation failed) does not return normally: every call
\* that returned normally has its whole line in the log output.
C14_FailurePropagates ==
    ~deleted => \A c \in returned : Contains(LogOutput, Line(c))

\* C23: whenever log_lock is free after init(), the module's log_file is a
\* handle open for writing on log_path, also after a rotate_log that failed
\* part-way.
C23_HandleOpenWhenFree ==
    (log_lock = 0 /\ log_file # "None") => log_file \in {"a", "w"}

\* segment names a directory may hold: padded and not, with zeros in front,
\* at the end of the three-digit range and past it
NameSamples ==
    { << 0 >>, << 9 >>, << 0, 0, 0 >>, << 0, 0, 1 >>, << 0, 1, 0 >>, << 1, 0 >>,
      << 9, 9, 9 >>, << 1, 0, 0, 0 >>, << 0, 0, 0, 2 >> }

\* C24: the name rotate_log writes a segment under is the name of no segment
\* the directory held when the rotation started, for every set of segments;
\* and no step changes what an existing segment holds.
C24_NoSegmentOverwritten ==
    /\ [](\A i \in 1..Len(created) : created[i] \notin scanned[i])
    /\ \A names \in SUBSET NameSamples : Format03(NextSegment(names)) \notin names
    /\ [][\A nm \in DOMAIN segs : nm \in DOMAIN segs' => segs'[nm] = segs[nm]]_vars

\* C24 witness: a rotation found the segments 0 and 001 and wrote 002, and
\* both are still what they were
C24_Witness ==
    \E i \in 1..Len(created) :
        /\ scanned[i] = { << 0 >>, Format03(1) }
        /\ created[i] = Format03(2)
        /\ ~deleted
        /\ segs[<< 0 >>] = OldSegment
        /\ segs[Format03(1)] = OldSegment

-----------------------------------------------------------------------------
(* Claims about messages.py *)

\* C15: the decoder of compressed messages is entered for the frame itself
\* only, never for a message that came out of decompression, and no message
\* is returned for a frame with an OP_COMPRESSED layer inside an OP_COMPRESSED
\* layer.
C15_NoNestedCompression ==
    /\ cpc = "unpack_compressed" => Len(stack) = 1
    /\ cpc = "returned" => Len(desc.wraps) <= 1

\* C16: the buffer handed to unpack_msg for the inner message of an
\* OP_COMPRESSED message starts with a header whose message_length is 16 +
\* uncompressed_size, whose op_code is original_opcode and whose request_id
\* and response_to are those of the enclosing header.
C16_SynthesizedHeader ==
    \A i \in 2..Len(stack) :
        LET outer == CompressedMsg(stack[i - 1])
            inner == MsgHeader(stack[i])
        IN  /\ inner.message_length = 16 + outer.uncompressed_size
            /\ inner.op_code = outer.original_opcode
            /\ inner.request_id = outer.header.request_id
            /\ inner.response_to = outer.header.response_to

\* every discriminator the frame was built with is a known one
KnownDiscriminators(d) ==
    /\ d.op \in { 1, 2001, 2002, 2004, 2005, 2006, 2007, 2012, 2013 }
    /\ \A i \in 1..Len(d.wraps) : d.wraps[i] \in { 0, 1, 2, 3 }
    /\ \A i \in 1..Len(d.kinds) : d.kinds[i] \in { 0, 1 }

\* C17: unpack_msg returns a message only for a frame all of whose
\* discriminators (op codes, compressor ids, section kinds) are known ones;
\* and each of the three errors for an unknown discriminator is raised only
\* for a frame that has an unknown discriminator of that sort.
C17_UnknownDiscriminator ==
    /\ cpc = "returned" => KnownDiscriminators(desc)
    /\ cerror = "RuntimeError: Invalid opcode" =>
           desc.op \notin { 1, 2001, 2002, 2004, 2005, 2006, 2007, 2012, 2013 }
    /\ cerror = "KeyError" =>
           \E i \in 1..Len(desc.wraps) : desc.wraps[i] \notin { 0, 1, 2, 3 }
    /\ cerror = "RuntimeError: Invalid section kind" =>
           \E i \in 1..Len(desc.kinds) : desc.kinds[i] \notin { 0, 1 }

\* C17 witness: an OP_MSG message inside a zlib layer, whose second section
\* has kind 2, was refused for that section
C17_Witness ==
    /\ cpc = "raised"
    /\ cerror = "RuntimeError: Invalid section kind"
    /\ desc.op = OP_MSG
    /\ desc.kinds = << BODY, 2 >>
    /\ desc.wraps = << ZLIB >>
    /\ Len(stack) = 2

====
